---- MODULE Spec2Model ----
(***************************************************************************)
(* A model of @paanj/client: the Streaming Channel (ClientWebSocketClient,  *)
(* src/src/websocket-client.ts), the Request Channel (ClientHttpClient,     *)
(* src/src/http-client.ts) and the Session Coordinator (PaanjClient, the    *)
(* latest revision, src/src/types/core-types.ts lines 196-445).             *)
(*                                                                         *)
(* JavaScript runs one task at a time, so every action below is one task:  *)
(* a call made by the caller, a transport event, a timer firing or the     *)
(* arrival of an HTTP response, together with every microtask it starts.   *)
(* The methods are operators from a world record (all the objects, and the *)
(* log of what the task did so far) to the world after the call, so that a *)
(* method calling another composes them. An action commits the objects of  *)
(* the world its task ends in; the properties read the log of that world.  *)
(***************************************************************************)
EXTENDS Integers, Sequences, FiniteSets, TLC

\* Bounds of the model.
MaxSockets == 2     \* sockets whose close event is still to come
MaxAttempts == 1    \* the largest maxReconnectAttempts configured
MaxReq == 2         \* calls in flight on the Request Channel
MaxIssue == 1       \* credentials the backend issues in one behaviour
MaxSchedule == 5    \* the maxReconnectAttempts of a channel built by itself

VARIABLES
    wsClient,    \* the fields of the ClientWebSocketClient
    httpClient,  \* the fields of the ClientHttpClient
    client,      \* the fields of the PaanjClient
    sockets,     \* the WebSocket objects whose close event is still to come
    timers,      \* the reconnect timers set and neither fired nor cleared
    reqs,        \* the calls in flight on the Request Channel
    issued,      \* the number of credentials the backend has issued
    done,        \* history: how the call that ended last ended, after how many sends
    announced,   \* history: the counts `reconnecting` carried since the last open
    failed,      \* history: reconnect attempts that failed since the last open
    handles,     \* the unsubscribe functions on() returned to the caller
    supplied     \* history: the options the constructor was called with

vars == <<wsClient, httpClient, client, sockets, timers, reqs, issued, done, announced, failed,
          handles, supplied>>

\* Tokens and user ids are numbers. JavaScript's falsy values are 0 (null or
\* undefined) and Empty (the empty string).
Empty == -1
Falsy(x) == x <= 0

\* The values of credential k.
Access(k) == 3 * k + 1
Refresh(k) == 3 * k + 2
User(k) == 3 * k + 3

\* The credentials the caller may bring from outside (authenticateWithToken);
\* the backend issues the ones after them.
ExtCreds == {0}
Issued(n) == Cardinality(ExtCreds) + n

\* The keys of the Listener Registry the model registers under.
EventKeys == {"user.created", "token.updated", "reconnecting", "error",
              "thread:t1:message.create", "message.create"}
Handlers == {1, 2}

\* One entry of a task's log.
Rec(k, key, h, d) == [k |-> k, key |-> key, h |-> h, d |-> d]
Note(W, k, key, h, d) == [W EXCEPT !.out = Append(@, Rec(k, key, h, d))]

\* The values Math.random() may return, in thousandths.
Randoms == {0, 999}

\* The objects as one record, with an empty log for the task that starts and
\* the value Math.random() returns in it.
WorldWith(random) ==
    [wsClient |-> wsClient, httpClient |-> httpClient, client |-> client,
     sockets |-> sockets, timers |-> timers, reqs |-> reqs, issued |-> issued,
     done |-> done, handles |-> handles, out |-> <<>>, random |-> random,
     throwers |-> {}]
World == WorldWith(0)

RECURSIVE Announce(_, _)
\* The counts announced since the last open, after a task with this log: an
\* open (which resolves the socket's connect()) forgets them, a `reconnecting`
\* event adds the count it carries.
Announce(counts, log) ==
    IF log = <<>> THEN counts
    ELSE LET e == Head(log)
         IN  Announce(CASE e.k = "resolved" /\ e.key = "connect" -> <<>>
                        [] e.k = "emit" /\ e.key = "reconnecting" -> Append(counts, e.d[1])
                        [] OTHER -> counts,
                      Tail(log))

\* The task ends: its world's objects are the next state.
Commit(W) ==
    /\ wsClient' = W.wsClient
    /\ httpClient' = W.httpClient
    /\ client' = W.client
    /\ sockets' = W.sockets
    /\ timers' = W.timers
    /\ reqs' = W.reqs
    /\ issued' = W.issued
    /\ done' = W.done
    /\ handles' = W.handles
    /\ supplied' = supplied
    /\ announced' = Announce(announced, W.out)

\* The entries of a log of one kind, and of one kind and key.
Of(log, k) == SelectSeq(log, LAMBDA e : e.k = k)
OfKey(log, k, key) == SelectSeq(log, LAMBDA e : e.k = k /\ e.key = key)

--------------------------------------------------------------------------
(* ClientWebSocketClient *)

\* handler(data) in its try/catch: a handler of W.throwers throws in this task,
\* and the catch logs the error.
Call(W, event, h, data) ==
    LET W1 == Note(W, "call", event, h, data)
    IN  IF h \in W.throwers THEN Note(W1, "caught", event, h, <<>>) ELSE W1

RECURSIVE CallAllUncaught(_, _, _, _)
\* A forEach with no try/catch: the first handler that throws ends it.
CallAllUncaught(W, event, hs, data) ==
    IF hs = <<>> THEN W
    ELSE IF Head(hs) \in W.throwers
         THEN Note(W, "call", event, Head(hs), data)
         ELSE CallAllUncaught(Call(W, event, Head(hs), data), event, Tail(hs), data)

RECURSIVE CallAll(_, _, _, _)
\* handlers.forEach(handler => { try { handler(data) } catch { log } })
CallAll(W, event, hs, data) ==
    IF hs = <<>> THEN W
    ELSE CallAll(Call(W, event, Head(hs), data), event, Tail(hs), data)

\* this.eventHandlers.get(event): the handlers in the order they were added,
\* none when the Map has no such key.
HandlersOf(ws, event) ==
    IF event \in DOMAIN ws.eventHandlers THEN ws.eventHandlers[event] ELSE <<>>

\* The tokens a handler called now reads from the three objects.
Seen(W) == <<W.client.accessToken, W.httpClient.accessToken, W.wsClient.accessToken>>

\* emit(event, data)
emit(W, event, data) ==
    CallAll(Note(W, "emit", event, Seen(W), data), event,
            HandlersOf(W.wsClient, event), data)

\* The handle setTimeout returns: one no pending timer has.
NewTimer(W) == CHOOSE n \in 1..(Cardinality(W.timers) + 1) : n \notin W.timers

\* clearTimeout(this.reconnectTimeout)
clearTimeout(W) == [W EXCEPT !.timers = @ \ {W.wsClient.reconnectTimeout}]

RECURSIVE Pow2(_)
\* Math.pow(2, n)
Pow2(n) == IF n <= 0 THEN 1 ELSE 2 * Pow2(n - 1)

\* Math.min(a, b)
Min(a, b) == IF a <= b THEN a ELSE b

\* A delay whose exponent is the attempt's number, not the number before it.
delayDoubledEarly(ws, random) ==
    LET grown == ws.backoffBase * Pow2(ws.reconnectAttempts)
        base == IF ws.backoffBase > 0
                THEN IF ws.backoffMax > 0 THEN Min(grown, ws.backoffMax) ELSE grown
                ELSE ws.reconnectInterval
    IN  IF ws.jitter
        THEN (base * (8000 + 4 * random)) \div 10000
        ELSE base

\* The delay scheduleReconnect() computes for the channel ws, whose counter it
\* has incremented, when Math.random() returns random thousandths.
delay(ws, random) ==
    LET grown == ws.backoffBase * Pow2(ws.reconnectAttempts - 1)
        base == IF ws.backoffBase > 0
                THEN IF ws.backoffMax > 0 THEN Min(grown, ws.backoffMax) ELSE grown
                ELSE ws.reconnectInterval
    IN  IF ws.jitter
        THEN (base * (8000 + 4 * random)) \div 10000
        ELSE base

\* A scheduleReconnect() that leaves the timer set before pending.
scheduleReconnectKeepsTimer(W) ==
    LET W2 == [W EXCEPT !.wsClient.reconnectAttempts = @ + 1]
        W3 == emit(W2, "reconnecting", <<W2.wsClient.reconnectAttempts>>)
        t  == NewTimer(W3)
    IN  [Note(W3, "setTimeout", "reconnect", t, <<delay(W3.wsClient, W3.random)>>)
            EXCEPT !.wsClient.reconnectTimeout = t, !.timers = @ \cup {t}]

\* A scheduleReconnect() that emits `reconnecting` before it counts the attempt.
scheduleReconnectEmitFirst(W) ==
    LET W1 == IF W.wsClient.reconnectTimeout # 0 THEN clearTimeout(W) ELSE W
        W2 == emit(W1, "reconnecting", <<W1.wsClient.reconnectAttempts>>)
        W3 == [W2 EXCEPT !.wsClient.reconnectAttempts = @ + 1]
        t  == NewTimer(W3)
    IN  [Note(W3, "setTimeout", "reconnect", t, <<delay(W3.wsClient, W3.random)>>)
            EXCEPT !.wsClient.reconnectTimeout = t, !.timers = @ \cup {t}]

\* scheduleReconnect()
scheduleReconnect(W) ==
    LET W1 == IF W.wsClient.reconnectTimeout # 0 THEN clearTimeout(W) ELSE W
        W2 == [W1 EXCEPT !.wsClient.reconnectAttempts = @ + 1]
        W3 == emit(W2, "reconnecting", <<W2.wsClient.reconnectAttempts>>)
        t  == NewTimer(W3)
    IN  [Note(W3, "setTimeout", "reconnect", t, <<delay(W3.wsClient, W3.random)>>)
            EXCEPT !.wsClient.reconnectTimeout = t, !.timers = @ \cup {t}]

\* new WS(url) with url = wsUrl/ws?token=<accessToken>, and the handlers set.
NewSocket(token, timer) ==
    [state |-> "CONNECTING", token |-> token, promise |-> "pending", timer |-> timer]

\* A socket whose close event was delivered delivers nothing more: its place
\* in `sockets` is free for the next socket created.
Closed == [state |-> "CLOSED", token |-> 0, promise |-> "none", timer |-> FALSE]

SocketIds == 1..MaxSockets
Live(ss) == {s \in SocketIds : ss[s].state # "CLOSED"}
\* The place of the next socket created.
NewId(ss) == CHOOSE s \in SocketIds \ Live(ss) : \A r \in SocketIds \ Live(ss) : s <= r

\* The states of a socket that has opened and whose close event is to come.
OpenedStates == {"OPEN", "CLOSING"}

\* connect(): `timer` says whether the reconnect timer called it.
connect(W, timer) ==
    IF Falsy(W.wsClient.accessToken)
    THEN Note(W, "throw", "AccessTokenRequired", 0, <<>>)
    ELSE LET s == NewId(W.sockets)
         IN  [Note(W, "create", "ws", s, <<W.wsClient.accessToken>>)
                 EXCEPT !.sockets[s] = NewSocket(W.wsClient.accessToken, timer),
                        !.wsClient.ws = s]

\* resolve() and reject(error) of the promise connect() returned for socket s:
\* a settled promise stays as it is.
settle(W, s, how) ==
    IF W.sockets[s].promise = "pending"
    THEN [Note(W, how, "connect", s, <<>>) EXCEPT !.sockets[s].promise = how]
    ELSE W

\* ws.onopen
onopen(W, s) ==
    settle([W EXCEPT !.wsClient.isConnected = TRUE,
                     !.wsClient.reconnectAttempts = 0], s, "resolved")

\* ws.onclose
onclose(W, s) ==
    LET W1 == [W EXCEPT !.wsClient.isConnected = FALSE]
    IN  IF W1.wsClient.autoReconnect
           /\ W1.wsClient.reconnectAttempts < W1.wsClient.maxReconnectAttempts
        THEN scheduleReconnect(W1)
        ELSE W1

\* ws.onerror
onerror(W, s) ==
    LET W1 == emit(W, "error", <<>>)
    IN  IF ~W1.wsClient.isConnected THEN settle(W1, s, "rejected") ELSE W1

\* WebSocket.close(): a socket still connecting fails (FAILING: the error event,
\* then the close event); an open one closes (CLOSING: the close event); one
\* closing or closed stays as it is.
SocketClose(W, s) ==
    LET st == W.sockets[s].state
        nx == CASE st = "CONNECTING" -> "FAILING"
                [] st = "OPEN" -> "CLOSING"
                [] OTHER -> st
    IN  [Note(W, "close", "ws", s, <<>>) EXCEPT !.sockets[s].state = nx]

\* disconnect() that leaves the reconnect timer pending.
disconnectLeavesTimer(W) ==
    LET W1 == [W EXCEPT !.wsClient.autoReconnect = FALSE]
        W3 == IF W1.wsClient.ws # 0
              THEN [SocketClose(W1, W1.wsClient.ws) EXCEPT !.wsClient.ws = 0]
              ELSE W1
    IN  [W3 EXCEPT !.wsClient.isConnected = FALSE]

\* disconnect()
disconnect(W) ==
    LET W1 == [W EXCEPT !.wsClient.autoReconnect = FALSE]
        W2 == IF W1.wsClient.reconnectTimeout # 0 THEN clearTimeout(W1) ELSE W1
        W3 == IF W2.wsClient.ws # 0
              THEN [SocketClose(W2, W2.wsClient.ws) EXCEPT !.wsClient.ws = 0]
              ELSE W2
    IN  [W3 EXCEPT !.wsClient.isConnected = FALSE]

\* setAccessToken(token) that reconnects before it stores the token.
wsSetAccessTokenLate(W, token) ==
    LET W1 == IF W.wsClient.isConnected THEN connect(disconnect(W), FALSE) ELSE W
    IN  [W1 EXCEPT !.wsClient.accessToken = token]

\* setAccessToken(token)
wsSetAccessToken(W, token) ==
    LET W1 == [W EXCEPT !.wsClient.accessToken = token]
    IN  IF W1.wsClient.isConnected
        THEN connect(disconnect(W1), FALSE)
        ELSE W1

\* send(data) that checks only that a socket was created.
sendToAnySocket(W, what) ==
    IF W.wsClient.ws = 0
    THEN Note(W, "throw", "NotConnected", 0, <<>>)
    ELSE Note(W, "wsSend", what, W.wsClient.ws, <<>>)

\* send(data) and subscribe(subscription): the same guard, then ws.send.
send(W, what) ==
    IF ~W.wsClient.isConnected \/ W.wsClient.ws = 0
    THEN Note(W, "throw", "NotConnected", 0, <<>>)
    ELSE Note(W, "wsSend", what, W.wsClient.ws, <<>>)

\* The function on(event, handler) returns: it closes over the key and the
\* handler. `calls` is history: how often the caller has invoked it (1 for
\* once or more).
Handle(event, h, calls) == [event |-> event, handler |-> h, calls |-> calls]

\* on(event, handler): the Set keeps the handlers in the order they were added
\* and adds no handler it has; the caller gets a new unsubscribe function.
on(W, event, h) ==
    LET W1 == [W EXCEPT !.handles = @ \cup {Handle(event, h, 0)}]
    IN  IF \E n \in 1..Len(W.wsClient.eventHandlers[event]) :
               W.wsClient.eventHandlers[event][n] = h
        THEN W1
        ELSE [W1 EXCEPT !.wsClient.eventHandlers[event] = Append(@, h)]

\* handlers.delete(handler)
Delete(hs, h) == SelectSeq(hs, LAMBDA x : x # h)

\* The unsubscribe function u, invoked: () => { handlers.delete(handler) }
off(W, u) ==
    [W EXCEPT !.wsClient.eventHandlers[u.event] = Delete(@, u.handler),
              !.handles = (@ \ {u}) \cup {Handle(u.event, u.handler, 1)}]

\* `${event.resource}:${event.resourceId}:${event.event}`
eventKey(message) ==
    message.resource \o ":" \o message.resourceId \o ":" \o message.event

\* handleMessage(message) that emits to the specific listeners only.
handleMessageSpecificOnly(W, message) ==
    IF message.type = "event"
    THEN emit(W, eventKey(message), <<message.data>>)
    ELSE W

\* handleMessage(message)
handleMessage(W, message) ==
    IF message.type = "event"
    THEN emit(emit(W, eventKey(message), <<message.data>>),
              message.event, <<message.data>>)
    ELSE IF message.type = "subscribed"
    THEN Note(W, "log", "subscribed", 0, <<>>)
    ELSE W

\* ws.onmessage: a text JSON.parse rejects is logged, the rest is handled.
onmessage(W, message) ==
    IF message.type = "unparsable"
    THEN Note(W, "log", "unparsable", 0, <<>>)
    ELSE handleMessage(W, message)

--------------------------------------------------------------------------
(* ClientHttpClient *)

\* A place of `reqs` with no call in it. `cb` is kept apart: it says that the
\* refreshTokenCallback() this place's call made has its request in flight.
Idle ==
    [pc |-> "idle", kind |-> "request", skipAuth |-> FALSE, retry |-> FALSE,
     sends |-> 0, awaits |-> 0, cb |-> FALSE]

ReqIds == 1..MaxReq

\* setAccessToken(token)
httpSetAccessToken(W, token) == [W EXCEPT !.httpClient.accessToken = token]

\* An Authorization header that is set whenever a token is held.
BearerWheneverHeld(W, skipAuth) ==
    IF ~Falsy(W.httpClient.accessToken) THEN W.httpClient.accessToken ELSE 0

\* The Authorization header of a request sent now: the token, or 0 for none.
Bearer(W, skipAuth) ==
    IF ~skipAuth /\ ~Falsy(W.httpClient.accessToken)
    THEN W.httpClient.accessToken ELSE 0

\* fetchFn(url, options): X-API-Key always (the 1), Authorization as above.
fetch(W, i, kind, skipAuth) ==
    Note(W, "fetch", kind, i, <<1, Bearer(W, skipAuth)>>)

\* executeRequest(method, path, body, skipAuth, retryOn401), to its await of
\* the response, for the call in place i.
executeRequest(W, i, kind, skipAuth, retryOn401) ==
    [fetch(W, i, kind, skipAuth) EXCEPT
        !.reqs[i].pc = "fetch", !.reqs[i].kind = kind,
        !.reqs[i].skipAuth = skipAuth, !.reqs[i].retry = retryOn401,
        !.reqs[i].sends = @ + 1, !.reqs[i].awaits = 0]

\* The call in place i ends: its promise resolves (with the body) or rejects.
finish(W, i, how, what) ==
    [Note(W, how, what, i, <<>>) EXCEPT
        !.reqs[i] = [Idle EXCEPT !.cb = W.reqs[i].cb],
        !.done = <<what, W.reqs[i].sends>>]

--------------------------------------------------------------------------
(* PaanjClient *)

\* A setSession that keeps the refresh token it holds.
setSessionKeepsRefresh(W, accessToken, refreshToken, userId) ==
    LET W1 == [W EXCEPT !.client.accessToken = accessToken,
                        !.client.userId = userId]
    IN  httpSetAccessToken(wsSetAccessToken(W1, accessToken), accessToken)

\* setSession(session)
setSession(W, accessToken, refreshToken, userId) ==
    LET W1 == [W EXCEPT !.client.accessToken = accessToken,
                        !.client.refreshToken = refreshToken,
                        !.client.userId = userId]
    IN  httpSetAccessToken(wsSetAccessToken(W1, accessToken), accessToken)

\* authenticateAnonymous that raises the event before it stores the session.
anonymousDoneEmitFirst(W, k) ==
    LET W1 == emit(W, "user.created", <<User(k), Access(k), Refresh(k)>>)
    IN  setSession([W1 EXCEPT !.issued = @ + 1], Access(k), Refresh(k), User(k))

\* authenticateAnonymous after its request: the backend answered credential k.
anonymousDone(W, k) ==
    LET W1 == setSession(W, Access(k), Refresh(k), User(k))
    IN  emit([W1 EXCEPT !.issued = @ + 1], "user.created",
             <<User(k), Access(k), Refresh(k)>>)

\* refreshAccessToken after its request: the backend answered the tokens of k.
refreshDone(W, k) ==
    LET uid == IF Falsy(W.client.userId) THEN Empty ELSE W.client.userId
        W1 == setSession(W, Access(k), Refresh(k), uid)
    IN  emit([W1 EXCEPT !.issued = @ + 1], "token.updated",
             <<W1.client.userId, Access(k), Refresh(k)>>)

\* authenticateWithToken that stores the access token before it checks.
authenticateWithTokenEager(W, token, userId, refreshToken) ==
    LET W1 == httpSetAccessToken([W EXCEPT !.client.accessToken = token], token)
    IN  IF Falsy(refreshToken)
        THEN Note(W1, "throw", "InvalidArgument", 0, <<>>)
        ELSE LET W2 == [W1 EXCEPT !.client.refreshToken = refreshToken,
                                  !.client.userId = IF ~Falsy(userId) THEN userId ELSE @]
                 W3 == wsSetAccessToken(W2, token)
             IN  emit(W3, "token.updated", <<W3.client.userId, token, refreshToken>>)

\* authenticateWithToken that adopts whatever it is given, with no check of
\* the refresh token.
authenticateWithTokenUnchecked(W, token, userId, refreshToken) ==
    LET W1 == [W EXCEPT !.client.accessToken = token,
                        !.client.refreshToken = refreshToken,
                        !.client.userId = IF ~Falsy(userId) THEN userId ELSE @]
        W2 == httpSetAccessToken(wsSetAccessToken(W1, token), token)
    IN  emit(W2, "token.updated", <<W2.client.userId, token, refreshToken>>)

\* authenticateWithToken that keeps the refresh token it holds.
authenticateWithTokenKeepsRefresh(W, token, userId, refreshToken) ==
    IF Falsy(refreshToken)
    THEN Note(W, "throw", "InvalidArgument", 0, <<>>)
    ELSE LET W1 == [W EXCEPT !.client.accessToken = token,
                             !.client.refreshToken =
                                 IF Falsy(@) THEN refreshToken ELSE @,
                             !.client.userId = IF ~Falsy(userId) THEN userId ELSE @]
             W2 == httpSetAccessToken(wsSetAccessToken(W1, token), token)
         IN  emit(W2, "token.updated", <<W2.client.userId, token, refreshToken>>)

\* authenticateWithToken(token, userId, refreshToken)
authenticateWithToken(W, token, userId, refreshToken) ==
    IF Falsy(refreshToken)
    THEN Note(W, "throw", "InvalidArgument", 0, <<>>)
    ELSE LET W1 == [W EXCEPT !.client.accessToken = token,
                             !.client.refreshToken = refreshToken,
                             !.client.userId = IF ~Falsy(userId) THEN userId ELSE @]
             W2 == httpSetAccessToken(wsSetAccessToken(W1, token), token)
         IN  emit(W2, "token.updated", <<W2.client.userId, token, refreshToken>>)

\* PaanjClient.connect()
clientConnect(W) ==
    IF Falsy(W.client.accessToken)
    THEN Note(W, "throw", "NotAuthenticated", 0, <<>>)
    ELSE connect(W, FALSE)

--------------------------------------------------------------------------
(* ClientHttpClient.executeRequest after the response *)

\* The calls awaiting refresh promise p, lowest place first.
RECURSIVE InOrder(_)
InOrder(S) ==
    IF S = {} THEN <<>>
    ELSE LET m == CHOOSE x \in S : \A y \in S : x <= y
         IN  <<m>> \o InOrder(S \ {m})
Waiters(W, p) ==
    InOrder({j \in ReqIds : W.reqs[j].pc = "await" /\ W.reqs[j].awaits = p})

\* A resume that never comes: the call goes on awaiting.
resumeNever(W, j, ok) == W

\* A resume that retries also after a refresh that failed.
resumeAnyway(W, j, ok) ==
    executeRequest(W, j, W.reqs[j].kind, W.reqs[j].skipAuth, FALSE)

\* A resume whose retry may itself be retried.
resumeRetrying(W, j, ok) ==
    IF ok
    THEN executeRequest(W, j, W.reqs[j].kind, W.reqs[j].skipAuth, TRUE)
    ELSE finish(W, j, "rejected", "RefreshError")

\* `await this.refreshPromise` ends for the call in place j: it goes on to the
\* retry when the promise resolved, and throws its error when it rejected.
resume(W, j, ok) ==
    IF ok
    THEN executeRequest(W, j, W.reqs[j].kind, W.reqs[j].skipAuth, FALSE)
    ELSE finish(W, j, "rejected", "RefreshError")

RECURSIVE resumeAll(_, _, _)
resumeAll(W, js, ok) ==
    IF js = <<>> THEN W ELSE resumeAll(resume(W, Head(js), ok), Tail(js), ok)

\* A settling whose handler runs only when the refresh succeeded (then() for
\* finally()): a refresh that failed leaves the marker and the promise.
settleRefreshOnSuccess(W, p, ok) ==
    LET W1 == IF ok
              THEN [W EXCEPT !.httpClient.isRefreshing = FALSE,
                             !.httpClient.refreshPromise = 0,
                             !.reqs[p].cb = FALSE]
              ELSE [W EXCEPT !.reqs[p].cb = FALSE]
    IN  resumeAll(W1, Waiters(W, p), ok)

\* The promise of the refreshTokenCallback() made by the call in place p
\* settles: the finally() handler, then every call awaiting it.
settleRefresh(W, p, ok) ==
    LET W1 == [W EXCEPT !.httpClient.isRefreshing = FALSE,
                        !.httpClient.refreshPromise = 0,
                        !.reqs[p].cb = FALSE]
    IN  resumeAll(W1, Waiters(W, p), ok)

\* A branch for 401 that starts a refresh whether or not one is in flight.
unauthorizedAlways(W, i) ==
    LET W1 == Note([W EXCEPT !.httpClient.isRefreshing = TRUE],
                   "callback", "refresh", i, <<>>)
    IN  IF Falsy(W1.client.refreshToken)
        THEN settleRefresh(
                 [Note(W1, "throw", "NotAuthenticated", 0, <<>>) EXCEPT
                     !.reqs[i].pc = "await", !.reqs[i].awaits = i], i, FALSE)
        ELSE [fetch(W1, i, "refresh", TRUE) EXCEPT
                 !.reqs[i].cb = TRUE, !.httpClient.refreshPromise = i,
                 !.reqs[i].pc = "await", !.reqs[i].awaits = i]

\* The branch for 401: wait for the refresh in flight, or start one.
unauthorized(W, i) ==
    IF W.httpClient.isRefreshing /\ W.httpClient.refreshPromise # 0
    THEN [W EXCEPT !.reqs[i].pc = "await",
                   !.reqs[i].awaits = W.httpClient.refreshPromise]
    ELSE IF ~W.httpClient.isRefreshing
    THEN LET W1 == Note([W EXCEPT !.httpClient.isRefreshing = TRUE],
                        "callback", "refresh", i, <<>>)
         IN  IF Falsy(W1.client.refreshToken)
             \* refreshAccessToken() throws before any request.
             THEN settleRefresh(
                      [Note(W1, "throw", "NotAuthenticated", 0, <<>>) EXCEPT
                          !.reqs[i].pc = "await", !.reqs[i].awaits = i], i, FALSE)
             ELSE [fetch(W1, i, "refresh", TRUE) EXCEPT
                      !.reqs[i].cb = TRUE, !.httpClient.refreshPromise = i,
                      !.reqs[i].pc = "await", !.reqs[i].awaits = i]
    ELSE executeRequest(W, i, W.reqs[i].kind, W.reqs[i].skipAuth, FALSE)

\* The response to the request of the call in place i: its status and, when
\* the backend issued a credential, which.
response(W, i, status, k) ==
    LET r == W.reqs[i]
    IN  IF status = 401 /\ ~r.skipAuth /\ r.retry /\ W.httpClient.refreshTokenCallback
        THEN unauthorized(W, i)
        ELSE IF status # 200
        THEN finish(W, i, "rejected", "HttpError")
        ELSE CASE r.kind = "anon" -> finish(anonymousDone(W, k), i, "resolved", "anon")
               [] r.kind = "refresh" -> finish(refreshDone(W, k), i, "resolved", "refresh")
               [] OTHER -> finish(W, i, "resolved", "request")

\* The response to the request of the refreshAccessToken() that the call in
\* place p started through the callback (skipAuth: any failure is an error).
refreshResponse(W, p, status, k) ==
    IF status = 200
    THEN settleRefresh(refreshDone(W, k), p, TRUE)
    ELSE settleRefresh(Note(W, "throw", "HttpError", p, <<>>), p, FALSE)

--------------------------------------------------------------------------
(* The state after `new PaanjClient(options)` *)

\* options.key ?? default, for options that leave out what they do not set.
Get(options, key, default) ==
    IF key \in DOMAIN options THEN options[key] ELSE default

\* new ClientWebSocketClient(apiKey, wsUrl, options)
wsConstructor(options) ==
    [ws |-> 0, accessToken |-> 0,
     autoReconnect |-> Get(options, "autoReconnect", TRUE),
     reconnectInterval |-> Get(options, "reconnectInterval", 5000),
     maxReconnectAttempts |-> Get(options, "maxReconnectAttempts", 10),
     reconnectAttempts |-> 0,
     eventHandlers |-> [e \in EventKeys |-> <<>>],
     isConnected |-> FALSE, reconnectTimeout |-> 0,
     backoffBase |-> Get(options, "backoffBase", 0),
     backoffMax |-> Get(options, "backoffMax", 30000),
     jitter |-> Get(options, "jitter", TRUE)]

\* this.options of new PaanjClient(options)
clientOptions(options) ==
    [autoReconnect |-> Get(options, "autoReconnect", TRUE),
     reconnectInterval |-> Get(options, "reconnectInterval", 5000),
     maxReconnectAttempts |-> Get(options, "maxReconnectAttempts", 10)]

\* The objects that are the same after every construction.
Fresh ==
    /\ httpClient = [accessToken |-> 0, refreshTokenCallback |-> TRUE,
                     isRefreshing |-> FALSE, refreshPromise |-> 0]
    /\ sockets = [s \in SocketIds |-> Closed]
    /\ timers = {}
    /\ reqs = [i \in ReqIds |-> Idle]
    /\ issued = 0
    /\ done = <<>>
    /\ announced = <<>>
    /\ failed = 0
    /\ handles = {}

\* new PaanjClient(options): the channel gets the three options of this.options.
Constructed(options) ==
    /\ supplied = options
    /\ client = [options |-> clientOptions(options),
                 accessToken |-> 0, refreshToken |-> 0, userId |-> 0]
    /\ wsClient = wsConstructor(clientOptions(options))
    /\ Fresh

Init ==
    /\ \E ar \in BOOLEAN, mx \in 0..MaxAttempts :
          Constructed([autoReconnect |-> ar, maxReconnectAttempts |-> mx])

\* A task that creates a socket needs room for one.
Room == Live(sockets) # SocketIds

--------------------------------------------------------------------------
(* The caller's calls on the Streaming Channel *)

\* ClientWebSocketClient.connect(), as PaanjClient.connect() delegates to it.
ConnectTask == connect(World, FALSE)
WsConnect ==
    /\ Room
    /\ Commit(ConnectTask)
    /\ UNCHANGED failed

\* disconnect()
DisconnectTask == disconnect(World)
Disconnect ==
    /\ Commit(DisconnectTask)
    /\ UNCHANGED failed

\* setAccessToken(token) called on the channel.
StreamTokens == {0, Access(0), Access(1)}
SetTokenTask(t) == wsSetAccessToken(World, t)
SetToken(t) ==
    /\ Room
    /\ Commit(SetTokenTask(t))
    /\ UNCHANGED failed
WsSetAccessToken == \E t \in StreamTokens : SetToken(t)

\* send(data)
SendTask == send(World, "data")
Send ==
    /\ Commit(SendTask)
    /\ UNCHANGED failed

\* subscribe(subscription)
SubscribeTask == send(World, "subscription")
Subscribe ==
    /\ Commit(SubscribeTask)
    /\ UNCHANGED failed

--------------------------------------------------------------------------
(* The transport's events and the timer *)

\* The connection of socket s opens.
OpenTask(s) == onopen([World EXCEPT !.sockets[s].state = "OPEN"], s)
Open(s) ==
    /\ sockets[s].state = "CONNECTING"
    /\ Commit(OpenTask(s))
    /\ failed' = 0
TransportOpen == \E s \in SocketIds : Open(s)

\* The connection of socket s fails: the error event; the close event follows
\* (ERRORED when the socket never opened, CLOSING when it had).
ErrorTask(s) ==
    onerror([World EXCEPT !.sockets[s].state =
                IF @ = "OPEN" THEN "CLOSING" ELSE "ERRORED"], s)
Error(s) ==
    /\ sockets[s].state \in {"CONNECTING", "OPEN", "FAILING"}
    /\ Commit(ErrorTask(s))
    /\ UNCHANGED failed
TransportError == \E s \in SocketIds : Error(s)

\* The connection of socket s is closed: by the peer when it was open, or as
\* the end of a failure or of close().
CloseTaskWith(s, random) == onclose([WorldWith(random) EXCEPT !.sockets[s] = Closed], s)
CloseTask(s) == CloseTaskWith(s, 0)
\* The values Math.random() may return in the close of a socket now: the
\* close calls it when it schedules a reconnect of a channel with jitter.
Drawn ==
    IF wsClient.jitter /\ wsClient.autoReconnect
       /\ wsClient.reconnectAttempts < wsClient.maxReconnectAttempts
    THEN Randoms ELSE {0}
Close(s) ==
    /\ sockets[s].state \in {"OPEN", "CLOSING", "ERRORED"}
    /\ \E random \in Drawn : Commit(CloseTaskWith(s, random))
    /\ failed' = IF sockets[s].timer /\ sockets[s].state = "ERRORED"
                 THEN failed + 1 ELSE failed
TransportClose == \E s \in SocketIds : Close(s)

\* The reconnect timer t fires: this.connect().catch(log)
TimerTask(t) == connect([World EXCEPT !.timers = @ \ {t}], TRUE)
Fire(t) ==
    /\ Room
    /\ Commit(TimerTask(t))
    /\ UNCHANGED failed
TimerFire == \E t \in timers : Fire(t)

--------------------------------------------------------------------------
(* The caller's calls on the Session Coordinator and the Request Channel *)

Free(i) == reqs[i].pc = "idle" /\ ~reqs[i].cb

\* A task that may call setSession() with the channel connected needs room
\* for the socket setAccessToken() creates.
RoomToRotate == Room \/ ~wsClient.isConnected

\* request(method, path, body, skipAuth, retryOn401)
RequestTask(i, skipAuth, retryOn401) ==
    executeRequest(World, i, "request", skipAuth, retryOn401)
Request ==
    \E i \in ReqIds, skipAuth \in BOOLEAN, retryOn401 \in BOOLEAN :
        /\ Free(i)
        /\ Commit(RequestTask(i, skipAuth, retryOn401))
        /\ UNCHANGED failed

\* authenticateAnonymous(userData, privateData), to its await
AnonymousTask(i) == executeRequest(World, i, "anon", TRUE, TRUE)
AuthenticateAnonymous ==
    \E i \in ReqIds :
        /\ Free(i)
        /\ Commit(AnonymousTask(i))
        /\ UNCHANGED failed

\* refreshAccessToken() called by the caller, to its await
RefreshTask(i) ==
    IF Falsy(client.refreshToken)
    THEN Note(World, "throw", "NotAuthenticated", 0, <<>>)
    ELSE executeRequest(World, i, "refresh", TRUE, TRUE)
RefreshAccessToken ==
    \E i \in ReqIds :
        /\ Free(i)
        /\ Commit(RefreshTask(i))
        /\ UNCHANGED failed

\* authenticateWithToken(token, userId, refreshToken)
WithTokenTask(token, userId, refreshToken) ==
    authenticateWithToken(World, token, userId, refreshToken)
WithToken(token, userId, refreshToken) ==
    /\ RoomToRotate
    /\ Commit(WithTokenTask(token, userId, refreshToken))
    /\ UNCHANGED failed
AuthenticateWithToken ==
    \E k \in ExtCreds :
        \E userId \in {0, User(k)}, refreshToken \in {0, Empty, Refresh(k)} :
            WithToken(Access(k), userId, refreshToken)

\* PaanjClient.connect(), called when no connection is open or under way.
ClientConnectTask == clientConnect(World)
ClientConnect ==
    /\ Live(sockets) = {}
    /\ Commit(ClientConnectTask)
    /\ UNCHANGED failed

\* on(event, callback)
OnTask(event, h) == on(World, event, h)
On ==
    \E event \in {"user.created"}, h \in Handlers :
        /\ Commit(OnTask(event, h))
        /\ UNCHANGED failed

--------------------------------------------------------------------------
(* The backend's answers *)

Statuses == {200, 401, 500}

\* The response to the request of the call in place i arrives.
ResponseTask(i, status) == response(World, i, status, Issued(issued))
Respond(i, status) ==
    /\ reqs[i].pc = "fetch"
    /\ (status = 200 /\ reqs[i].kind # "request") => (issued < MaxIssue /\ RoomToRotate)
    /\ Commit(ResponseTask(i, status))
    /\ UNCHANGED failed
Response == \E i \in ReqIds, status \in Statuses : Respond(i, status)

\* The response to the refresh that the call in place p started arrives.
RefreshResponseTask(p, status) == refreshResponse(World, p, status, Issued(issued))
RespondRefresh(p, status) ==
    /\ reqs[p].cb
    /\ status = 200 => (issued < MaxIssue /\ RoomToRotate)
    /\ Commit(RefreshResponseTask(p, status))
    /\ UNCHANGED failed
RefreshResponse == \E p \in ReqIds, status \in Statuses : RespondRefresh(p, status)

--------------------------------------------------------------------------
(* The specifications *)

NextStream ==
    \/ WsConnect
    \/ Disconnect
    \/ WsSetAccessToken
    \/ Send
    \/ Subscribe
    \/ TransportOpen
    \/ TransportError
    \/ TransportClose
    \/ TimerFire

\* The Streaming Channel under every caller and every transport.
SpecStream == Init /\ [][NextStream]_vars

NextRequest ==
    \/ Request
    \/ AuthenticateAnonymous
    \/ RefreshAccessToken
    \/ AuthenticateWithToken
    \/ Response
    \/ RefreshResponse

\* A client configured not to reconnect by itself (SpecStream covers the rest).
InitSession == Init /\ ~wsClient.autoReconnect /\ wsClient.maxReconnectAttempts = 0

\* The Request Channel under every caller and every backend, with the Session
\* Coordinator as the source of its tokens; the Streaming Channel stays
\* unconnected.
SpecRequest == InitSession /\ [][NextRequest]_vars

\* The transport answers every request it was sent: the response to a call's
\* request, and the response to the refresh a call started, arrive at last.
\* Any response ends the wait for it, and the response 500 is possible as long
\* as the request is unanswered, so weak fairness of that one response says
\* that no request stays unanswered for ever, whatever the answers are.
Answered ==
    \A i \in ReqIds :
        /\ WF_vars(Respond(i, 500))
        /\ WF_vars(RespondRefresh(i, 500))

\* The Request Channel with a transport that answers.
SpecRequestAnswered == SpecRequest /\ Answered

NextAuth ==
    \/ AuthenticateAnonymous
    \/ AuthenticateWithToken
    \/ Response
    \/ On
    \/ ClientConnect
    \/ TransportOpen
    \/ TransportClose

\* The Session Coordinator signing in, with its listeners and with the
\* Streaming Channel connecting, opening and closing.
SpecAuth == InitSession /\ [][NextAuth]_vars

\* The options a caller may give a channel it builds by itself: each is left
\* out or set.
NoOption == [key \in {} |-> 0]
ChannelOptions ==
    {[autoReconnect |-> TRUE, maxReconnectAttempts |-> MaxSchedule] @@ b @@ m @@ j @@ i :
        b \in {NoOption, [backoffBase |-> 0], [backoffBase |-> 100]},
        m \in {NoOption, [backoffMax |-> 0], [backoffMax |-> 1000]},
        j \in {NoOption, [jitter |-> FALSE]},
        i \in {NoOption, [reconnectInterval |-> 700]}}

\* new ClientWebSocketClient(apiKey, wsUrl, options), with no coordinator.
InitChannel ==
    /\ \E options \in ChannelOptions :
          wsClient = wsConstructor(options) /\ supplied = options
    /\ client = [options |-> clientOptions(NoOption),
                 accessToken |-> 0, refreshToken |-> 0, userId |-> 0]
    /\ Fresh

\* The caller gives the channel its first token.
ChannelStart ==
    /\ wsClient.accessToken = 0
    /\ SetToken(Access(0))

\* The caller connects the channel when it has no connection.
ChannelConnect ==
    /\ Live(sockets) = {}
    /\ WsConnect

NextChannel ==
    \/ ChannelStart
    \/ ChannelConnect
    \/ TransportOpen
    \/ TransportError
    \/ TransportClose
    \/ TimerFire

\* A channel built by itself with every choice of backoff options, which its
\* caller connects and the transport opens, fails and closes.
SpecChannel == InitChannel /\ [][NextChannel]_vars

--------------------------------------------------------------------------
(* The Listener Registry and the messages of the backend *)

\* The keys the caller registers under, and the callbacks it has.
RegistryKeys == {"thread:t1:message.create", "message.create"}

\* The messages the backend sends, as JSON.parse returns them; one stands for
\* the texts JSON.parse rejects.
Message_(type, resourceId) ==
    [type |-> type, resource |-> "thread", resourceId |-> resourceId,
     event |-> "message.create", data |-> 7]
Messages ==
    {Message_("event", id) : id \in {"t1", "t2"}}
        \cup {Message_(ty, "t1") : ty \in {"subscribed", "pong", "ping", "unparsable"}}

\* The message event of a socket: the handlers of `throwers` throw. The task
\* notes in `done` that it ran, how many handlers it called and how many threw.
MessageTask(message, throwers) ==
    LET W == onmessage([World EXCEPT !.throwers = throwers], message)
    IN  [W EXCEPT !.done = <<"delivered", Len(Of(W.out, "call")),
                             Len(Of(W.out, "caught"))>>]
Message(s) ==
    /\ sockets[s].state \in OpenedStates
    /\ \E message \in Messages, throwers \in SUBSET Handlers :
          Commit(MessageTask(message, throwers))
    /\ UNCHANGED failed
TransportMessage == \E s \in SocketIds : Message(s)

\* The close event of socket s when the handlers of `throwers` throw.
CloseTaskThrowing(s, throwers) ==
    onclose([World EXCEPT !.sockets[s] = Closed, !.throwers = throwers], s)

\* The registrations the caller makes: either callback under the two keys of
\* messages, the first one under `reconnecting` too.
Registrations == (RegistryKeys \X Handlers) \cup {<<"reconnecting", 1>>}

\* on(event, handler) called on the channel.
RegistryOn ==
    /\ \E r \in Registrations : Commit(OnTask(r[1], r[2]))
    /\ UNCHANGED failed

\* The caller invokes an unsubscribe function it holds.
OffTask(u) == off(World, u)
RegistryOff ==
    /\ \E u \in handles : Commit(OffTask(u))
    /\ UNCHANGED failed

\* new ClientWebSocketClient(apiKey, wsUrl, options), with no coordinator.
InitRegistry ==
    /\ \E ar \in BOOLEAN :
          LET options == [autoReconnect |-> ar, jitter |-> FALSE,
                          maxReconnectAttempts |-> MaxAttempts]
          IN  wsClient = wsConstructor(options) /\ supplied = options
    /\ client = [options |-> clientOptions(NoOption),
                 accessToken |-> 0, refreshToken |-> 0, userId |-> 0]
    /\ Fresh

NextMessages ==
    \/ ChannelStart
    \/ ChannelConnect
    \/ TransportOpen
    \/ TransportClose
    \/ TimerFire
    \/ TransportMessage
    \/ RegistryOn

\* A channel built by itself, whose caller registers listeners while the
\* backend sends messages over the connections the channel makes.
SpecMessages == InitRegistry /\ [][NextMessages]_vars

NextRegistry ==
    \/ RegistryOn
    \/ RegistryOff

\* The Listener Registry of a channel built by itself, whose caller registers
\* listeners and invokes the unsubscribe functions it got, in any order.
SpecRegistry == InitRegistry /\ [][NextRegistry]_vars

--------------------------------------------------------------------------
(* The options of the Session Coordinator *)

\* The configurations a caller gives new PaanjClient(options): the reconnect
\* options, each given or left out.
CoordinatorOptions ==
    {[maxReconnectAttempts |-> MaxAttempts] @@ b @@ m @@ j @@ i :
        b \in {NoOption, [backoffBase |-> 100]},
        m \in {NoOption, [backoffMax |-> 1000]},
        j \in {NoOption, [jitter |-> FALSE]},
        i \in {NoOption, [reconnectInterval |-> 700]}}

InitOptions == \E options \in CoordinatorOptions : Constructed(options)

NextOptions ==
    \/ AuthenticateWithToken
    \/ ClientConnect
    \/ TransportOpen
    \/ TransportClose
    \/ TimerFire

\* A coordinator built with every choice of reconnect options, signed in with
\* a token, whose channel connects, opens, closes and reconnects.
SpecOptions == InitOptions /\ [][NextOptions]_vars

--------------------------------------------------------------------------
(* The lifecycle events and the messages of the backend *)

\* The keys of the events the client itself raises.
LifecycleKeys == {"user.created", "token.updated", "reconnecting", "error"}

\* The event messages the backend may send for thread t1: any event name.
LifecycleMessages ==
    {[type |-> "event", resource |-> "thread", resourceId |-> "t1",
      event |-> e, data |-> 7] : e \in LifecycleKeys \cup {"message.create"}}

\* The caller registers its first callback under a lifecycle key.
LifecycleOn ==
    /\ \E event \in LifecycleKeys : Commit(OnTask(event, 1))
    /\ UNCHANGED failed

\* The message event of socket s, for a message of any event name. The
\* history `announced` follows the events the channel raises itself, so the
\* task's log is left out of it.
LifecycleMessage(s) ==
    /\ sockets[s].state \in OpenedStates
    /\ \E message \in LifecycleMessages :
          Commit([MessageTask(message, {}) EXCEPT !.out = <<>>])
    /\ UNCHANGED failed

NextLifecycle ==
    \/ ChannelStart
    \/ ChannelConnect
    \/ TransportOpen
    \/ TransportClose
    \/ TimerFire
    \/ LifecycleOn
    \/ \E s \in SocketIds : LifecycleMessage(s)

\* A channel whose caller listens to the lifecycle events while the backend
\* sends event messages of any name.
SpecLifecycle == InitRegistry /\ [][NextLifecycle]_vars

Next == NextStream \/ NextLifecycle \/ NextOptions \/ NextRequest \/ NextAuth \/ NextChannel \/ NextMessages \/ NextRegistry

\* The whole client.
Spec == Init /\ [][Next]_vars

--------------------------------------------------------------------------
(* The Streaming Channel's claims, under SpecStream *)

\* C4 (as the claim states it): in every reachable state at most one
\* connection of the channel is Connecting or Open. Violated: connect() creates
\* a socket whatever the state of the one before it.
C4_OneActiveConnection ==
    Cardinality({s \in SocketIds : sockets[s].state \in {"CONNECTING", "OPEN"}}) <= 1

\* C5 (as the claim states it): when the close of a failed reconnect attempt
\* brings the failures since the last open to maxReconnectAttempts or more,
\* that close sets no timer and emits no `reconnecting`; and with
\* maxReconnectAttempts = 0 no timer is ever set. Violated: an attempt made
\* beside the timer's (C4) opens and resets the counter the timers share.
C5_BudgetEndsReconnecting ==
    /\ [][\A s \in SocketIds :
            (Close(s) /\ failed' > failed /\ failed' >= wsClient.maxReconnectAttempts)
            => /\ Of(CloseTask(s).out, "setTimeout") = <<>>
               /\ OfKey(CloseTask(s).out, "emit", "reconnecting") = <<>>]_vars
    /\ [](wsClient.maxReconnectAttempts = 0 => timers = {})

\* C6: in every state, disconnect() ends with automatic reconnection
\* disabled, no timer pending, the channel's socket given up and closed
\* (neither Connecting nor Open) and isConnected false, it throws nothing, and
\* a second disconnect() right after it changes nothing; once automatic
\* reconnection is disabled and no timer is pending, every step leaves it so;
\* and while it is disabled, no close event and no error event creates a
\* socket or emits `reconnecting`.
C6_DisconnectIsFinal ==
    /\ [](LET W == [DisconnectTask EXCEPT !.out = <<>>]
          IN  /\ ~W.wsClient.autoReconnect
              /\ W.timers = {}
              /\ W.wsClient.ws = 0
              /\ ~W.wsClient.isConnected
              /\ wsClient.ws # 0 =>
                    W.sockets[wsClient.ws].state \notin {"CONNECTING", "OPEN"}
              /\ Of(DisconnectTask.out, "throw") = <<>>
              /\ disconnect(W) = W)
    /\ [][(~wsClient.autoReconnect /\ timers = {}) =>
            (~wsClient'.autoReconnect /\ timers' = {})]_vars
    /\ [](~wsClient.autoReconnect =>
            \A s \in SocketIds :
                /\ sockets[s].state \in {"OPEN", "CLOSING", "ERRORED"} =>
                      /\ Of(CloseTask(s).out, "create") = <<>>
                      /\ Of(CloseTask(s).out, "setTimeout") = <<>>
                      /\ Of(CloseTask(s).out, "emit") = <<>>
                /\ sockets[s].state \in {"CONNECTING", "OPEN", "FAILING"} =>
                      /\ Of(ErrorTask(s).out, "create") = <<>>
                      /\ Of(ErrorTask(s).out, "setTimeout") = <<>>
                      /\ OfKey(ErrorTask(s).out, "emit", "reconnecting") = <<>>)

\* C6's case: a client made to reconnect by itself, after disconnect() closed
\* its active connection.
C6_Witness ==
    /\ client.options.autoReconnect
    /\ ~wsClient.autoReconnect
    /\ wsClient.ws = 0
    /\ wsClient.reconnectTimeout # 0
    /\ \E s \in SocketIds : sockets[s].state \in {"FAILING", "CLOSING"}

\* The channel is Open: its socket is, and the channel says so.
ChannelOpen ==
    /\ wsClient.isConnected
    /\ wsClient.ws # 0
    /\ sockets[wsClient.ws].state = "OPEN"

\* C7: setAccessToken(t) with a token t, called while the channel is Open,
\* closes the open socket and creates exactly one socket, whose URL carries t
\* and which becomes the channel's socket; and when the transport opens the
\* channel's socket, the channel is connected through that socket, whose token
\* is the one it was created with.
C7_TokenRotation ==
    /\ [][\A t \in StreamTokens :
            (ChannelOpen /\ ~Falsy(t) /\ SetToken(t)) =>
                /\ sockets'[wsClient.ws].state = "CLOSING"
                /\ wsClient'.ws \notin Live(sockets)
                /\ Live(sockets') = Live(sockets) \cup {wsClient'.ws}
                /\ sockets'[wsClient'.ws] = NewSocket(t, FALSE)
                /\ Len(Of(SetTokenTask(t).out, "create")) = 1
                /\ wsClient'.accessToken = t]_vars
    /\ [][\A s \in SocketIds :
            (wsClient.ws = s /\ Open(s)) =>
                /\ wsClient'.isConnected
                /\ wsClient'.ws = s
                /\ sockets'[s].state = "OPEN"
                /\ sockets'[s].token = sockets[s].token]_vars

\* C7's case: the socket of the old token is closing and the channel is Open
\* again through a socket of the new one.
C7_Witness ==
    /\ ChannelOpen
    /\ ~wsClient.autoReconnect
    /\ sockets[wsClient.ws].token = wsClient.accessToken
    /\ \E s \in SocketIds :
          /\ sockets[s].state = "CLOSING"
          /\ sockets[s].token # wsClient.accessToken

--------------------------------------------------------------------------
(* The Request Channel's claims, under SpecRequest *)

\* A call whose request is in flight and whose 401 would take the refresh branch.
Eligible(i) ==
    /\ reqs[i].pc = "fetch"
    /\ ~reqs[i].skipAuth
    /\ reqs[i].retry
    /\ httpClient.refreshTokenCallback

\* The calls awaiting the refresh in flight.
Awaiting == {j \in ReqIds : reqs[j].pc = "await"}

\* The entries of a log that are requests sent for the call in place j.
SentFor(log, j) == SelectSeq(log, LAMBDA e : e.k = "fetch" /\ e.h = j)

\* C1: at most one refresh is in flight, and every call that awaits awaits
\* that one; a 401 that arrives while a refresh is in flight calls no callback
\* and sends nothing, it awaits the refresh in flight, and a 401 that arrives
\* while none is calls the callback exactly once; when the refresh succeeds,
\* every call awaiting it is sent again exactly once, in that task, after the
\* new session is stored, with the new token and with no further retry; and a
\* call that awaits is sent again by nothing but the refresh settling.
C1_SharedRefresh ==
    /\ [](/\ Cardinality({p \in ReqIds : reqs[p].cb}) <= 1
          /\ httpClient.isRefreshing <=> (\E p \in ReqIds : reqs[p].cb)
          /\ \A j \in Awaiting :
                /\ httpClient.isRefreshing
                /\ reqs[j].awaits = httpClient.refreshPromise
                /\ reqs[reqs[j].awaits].cb)
    /\ [][\A i \in ReqIds :
            (Eligible(i) /\ Respond(i, 401)) =>
                IF httpClient.isRefreshing
                THEN /\ Of(ResponseTask(i, 401).out, "callback") = <<>>
                     /\ Of(ResponseTask(i, 401).out, "fetch") = <<>>
                     /\ reqs'[i] = [reqs[i] EXCEPT !.pc = "await",
                                        !.awaits = httpClient.refreshPromise]
                ELSE Len(Of(ResponseTask(i, 401).out, "callback")) = 1]_vars
    /\ [][\A p \in ReqIds :
            RespondRefresh(p, 200) =>
                LET out == RefreshResponseTask(p, 200).out
                    k == Issued(issued)
                IN  /\ Of(out, "callback") = <<>>
                    /\ ~httpClient'.isRefreshing
                    /\ \A j \in Awaiting :
                          /\ SentFor(out, j) = <<Rec("fetch", "request", j, <<1, Access(k)>>)>>
                          /\ reqs'[j].pc = "fetch"
                          /\ reqs'[j].sends = 2
                          /\ ~reqs'[j].retry
                    /\ \A n \in 1..Len(out) :
                          out[n].k = "fetch" =>
                              \E m \in 1..(n - 1) :
                                  out[m].k = "emit" /\ out[m].key = "token.updated"]_vars
    /\ [][\A j \in Awaiting :
            reqs'[j] # reqs[j] =>
                \E p \in ReqIds, status \in Statuses : RespondRefresh(p, status)]_vars

\* C1's case: two calls that awaited one refresh are both sent a second time.
C1_Witness ==
    /\ issued >= 1
    /\ ~httpClient.isRefreshing
    /\ \E i, j \in ReqIds :
          /\ i # j
          /\ reqs[i].pc = "fetch" /\ reqs[i].sends = 2
          /\ reqs[j].pc = "fetch" /\ reqs[j].sends = 2

\* C2 (as the claim states it): when the refresh fails, every call that
\* started it or awaited it is sent again once, with no further retry.
C2_RetriedAfterFailure ==
    [][\A p \in ReqIds, status \in Statuses \ {200} :
        RespondRefresh(p, status) =>
            \A j \in Awaiting :
                /\ reqs'[j].pc = "fetch"
                /\ reqs'[j].sends = reqs[j].sends + 1
                /\ ~reqs'[j].retry]_vars

\* C2 (amended): when the refresh fails, every call that started it or awaited
\* it fails with the refresh's error and is not sent again, and no refresh is
\* in flight afterwards; so too when the refresh fails before it sends
\* anything, for want of a refresh token.
C2_RefreshErrorFailsCalls ==
    /\ [][\A p \in ReqIds, status \in Statuses \ {200} :
            RespondRefresh(p, status) =>
                LET out == RefreshResponseTask(p, status).out
                IN  /\ p \in Awaiting
                    /\ Of(out, "fetch") = <<>>
                    /\ ~httpClient'.isRefreshing
                    /\ httpClient'.refreshPromise = 0
                    /\ \A j \in Awaiting :
                          /\ reqs'[j].pc = "idle"
                          /\ SelectSeq(out, LAMBDA e : e.h = j /\ e.k # "throw")
                                = <<Rec("rejected", "RefreshError", j, <<>>)>>]_vars
    /\ [][\A i \in ReqIds :
            (/\ Eligible(i)
             /\ ~httpClient.isRefreshing
             /\ Falsy(client.refreshToken)
             /\ Respond(i, 401)) =>
                /\ Of(ResponseTask(i, 401).out, "fetch") = <<>>
                /\ OfKey(ResponseTask(i, 401).out, "rejected", "RefreshError")
                      = <<Rec("rejected", "RefreshError", i, <<>>)>>
                /\ reqs'[i].pc = "idle"
                /\ ~httpClient'.isRefreshing]_vars

\* C2's case: a refresh made with a refresh token failed, and the calls that
\* awaited it ended with its error after their one transmission.
C2_Witness ==
    /\ done = <<"RefreshError", 1>>
    /\ ~Falsy(client.refreshToken)
    /\ \A i \in ReqIds : Free(i)

\* C3: no call is sent more than twice, and one sent twice is in its retry,
\* which allows no further retry; a 401 to the retry does nothing but fail the
\* call with an HTTP error; and no response makes a call invoke the callback
\* more than once.
C3_NoSecondRetry ==
    /\ [](\A i \in ReqIds :
            /\ reqs[i].sends <= 2
            /\ reqs[i].sends = 2 => (reqs[i].pc = "fetch" /\ ~reqs[i].retry))
    /\ [][\A i \in ReqIds :
            (reqs[i].sends = 2 /\ Respond(i, 401)) =>
                /\ ResponseTask(i, 401).out = <<Rec("rejected", "HttpError", i, <<>>)>>
                /\ reqs'[i].pc = "idle"
                /\ httpClient' = httpClient]_vars
    /\ [][\A i \in ReqIds, status \in Statuses :
            Respond(i, status) =>
                Len(Of(ResponseTask(i, status).out, "callback")) <= 1]_vars

\* C3's case: a call ended with an HTTP error after its second transmission.
C3_Witness == done = <<"HttpError", 2>>

--------------------------------------------------------------------------
(* The Session Coordinator's claims, under SpecAuth *)

\* C9: in every state, authenticateWithToken with an empty refresh token
\* (undefined or the empty string), whatever the access token and the user id,
\* throws InvalidArgument and does nothing else: no field of the coordinator
\* or of either channel changes, no socket, and no event is raised.
C9_EmptyRefreshTokenRejected ==
    \A k \in ExtCreds :
        \A userId \in {0, User(k)}, refreshToken \in {0, Empty} :
            WithTokenTask(Access(k), userId, refreshToken)
                = Note(World, "throw", "InvalidArgument", 0, <<>>)

\* C9's case: a session is stored and the channel is Open, so that adopting
\* a credential would change the tokens and the connection.
C9_Witness ==
    /\ ChannelOpen
    /\ ~Falsy(client.refreshToken)
    /\ client.accessToken = wsClient.accessToken
    /\ wsClient.accessToken # Access(0)

\* C10: when the backend answers an authenticateAnonymous call with credential
\* k, `user.created` is emitted once, with k's user id, access token and
\* refresh token, each registered handler is called once with them, the
\* handlers read k's access token from the coordinator and from both
\* channels, the coordinator holds k, and the call resolves after all that;
\* when the backend refuses the call, no event is emitted and no handler called.
C10_UserCreatedOnce ==
    [][\A i \in ReqIds, status \in Statuses :
        (reqs[i].kind = "anon" /\ Respond(i, status)) =>
            LET out == ResponseTask(i, status).out
                k == Issued(issued)
                data == <<User(k), Access(k), Refresh(k)>>
                hs == wsClient.eventHandlers["user.created"]
            IN  IF status = 200
                THEN /\ Of(out, "emit")
                          = <<Rec("emit", "user.created",
                                  <<Access(k), Access(k), Access(k)>>, data)>>
                     /\ Of(out, "call")
                          = [n \in 1..Len(hs) |->
                                Rec("call", "user.created", hs[n], data)]
                     /\ out[Len(out)] = Rec("resolved", "anon", i, <<>>)
                     /\ out[Len(out) - Len(hs) - 1].k = "emit"
                     /\ client'.userId = User(k)
                     /\ client'.accessToken = Access(k)
                     /\ client'.refreshToken = Refresh(k)
                ELSE /\ out = <<Rec("rejected", "HttpError", i, <<>>)>>
                     /\ client' = client]_vars

\* C10's case: two handlers are registered, an anonymous sign-in succeeded
\* while the channel was connected and its credential is the session.
C10_Witness ==
    /\ done = <<"anon", 1>>
    /\ issued >= 1
    /\ Len(wsClient.eventHandlers["user.created"]) = 2
    /\ client.userId = User(Issued(issued - 1))
    /\ wsClient.ws # 0
    /\ sockets[wsClient.ws].token = Access(Issued(issued - 1))

--------------------------------------------------------------------------
(* The claims about a channel built by itself, under SpecChannel *)

\* The sockets whose close event may come now.
Closable == {s \in SocketIds : sockets[s].state \in {"OPEN", "CLOSING", "ERRORED"}}

\* The delays of the timers that the close of socket s sets now.
DelaysSet(s) ==
    LET ds == Of(CloseTask(s).out, "setTimeout")
    IN  {ds[n].d[1] : n \in 1..Len(ds)}

\* C11 (as the claim states it): with jitter disabled, the delay set for
\* attempt N is min(backoffBase * 2^(N-1), backoffMax) when backoffBase > 0,
\* for every backoffMax >= 0, and reconnectInterval when backoffBase = 0.
C11_DelayClampedAlways ==
    ~wsClient.jitter =>
        \A s \in Closable : \A d \in DelaysSet(s) :
            LET N == wsClient.reconnectAttempts + 1
                grown == wsClient.backoffBase * 2^(N - 1)
            IN  d = IF wsClient.backoffBase > 0
                    THEN IF grown <= wsClient.backoffMax
                         THEN grown ELSE wsClient.backoffMax
                    ELSE wsClient.reconnectInterval

\* C11 (amended): with jitter disabled, the delay set for attempt N is
\* min(backoffBase * 2^(N-1), backoffMax) when backoffBase > 0 and
\* backoffMax > 0, backoffBase * 2^(N-1) with no clamp when backoffBase > 0 and
\* backoffMax = 0, and reconnectInterval when backoffBase = 0; with base 100
\* and maximum 1000 the delays are 100, 200, 400, 800, 1000, 1000, ...
C11_DelayClampedByPositiveMax ==
    ~wsClient.jitter =>
        \A s \in Closable : \A d \in DelaysSet(s) :
            LET N == wsClient.reconnectAttempts + 1
                grown == wsClient.backoffBase * 2^(N - 1)
            IN  /\ d = IF wsClient.backoffBase > 0
                        THEN IF wsClient.backoffMax > 0 /\ grown > wsClient.backoffMax
                             THEN wsClient.backoffMax ELSE grown
                        ELSE wsClient.reconnectInterval
                /\ (wsClient.backoffBase = 100 /\ wsClient.backoffMax = 1000) =>
                      d = <<100, 200, 400, 800, 1000, 1000, 1000, 1000>>[N]

\* C11's case: a channel with base 100, maximum 1000 and no jitter has
\* scheduled its fifth attempt.
C11_Witness ==
    /\ ~wsClient.jitter
    /\ wsClient.backoffBase = 100
    /\ wsClient.backoffMax = 1000
    /\ wsClient.reconnectAttempts = 5
    /\ timers # {}

\* The places in a log of the entries of one kind.
Places(log, k) == {n \in 1..Len(log) : log[n].k = k}

\* C19: the `reconnecting` events emitted since the last open carry 1, 2, 3,
\* ... in order, as many as the attempt counter says; an open sets the counter
\* to zero; a close that schedules a reconnect counts the attempt, then emits
\* `reconnecting` once with the new count, then sets the one timer whose
\* firing starts the attempt; and a timer that fires emits nothing.
C19_ReconnectingCountsUp ==
    /\ \A n \in 1..Len(announced) : announced[n] = n
    /\ Len(announced) = wsClient.reconnectAttempts
    /\ \A s \in SocketIds :
          sockets[s].state = "CONNECTING" => OpenTask(s).wsClient.reconnectAttempts = 0
    /\ \A s \in Closable :
          LET W == CloseTask(s)
              emits == OfKey(W.out, "emit", "reconnecting")
          IN  IF wsClient.autoReconnect
                 /\ wsClient.reconnectAttempts < wsClient.maxReconnectAttempts
              THEN /\ W.wsClient.reconnectAttempts = wsClient.reconnectAttempts + 1
                   /\ Len(emits) = 1
                   /\ emits[1].d = <<wsClient.reconnectAttempts + 1>>
                   /\ Cardinality(Places(W.out, "setTimeout")) = 1
                   /\ \A e \in Places(W.out, "emit"), t \in Places(W.out, "setTimeout") : e < t
                   /\ Places(W.out, "create") = {}
              ELSE emits = <<>> /\ Places(W.out, "setTimeout") = {}
    /\ \A t \in timers : Room => Places(TimerTask(t).out, "emit") = {}

\* C19's case: three reconnects were announced since the last open and the
\* third is pending.
C19_Witness ==
    /\ announced = <<1, 2, 3>>
    /\ wsClient.reconnectAttempts = 3
    /\ timers # {}
    /\ wsClient.isConnected = FALSE

--------------------------------------------------------------------------
(* The claims about messages and listeners, under SpecMessages *)

\* Handler h is registered under key k.
Registered(k, h) ==
    /\ k \in DOMAIN wsClient.eventHandlers
    /\ \E n \in 1..Len(wsClient.eventHandlers[k]) : wsClient.eventHandlers[k][n] = h

\* The composite key of the event messages the backend sends, by resource id.
CompositeKey == [t1 |-> "thread:t1:message.create", t2 |-> "thread:t2:message.create"]

\* The objects a task ends with are the ones it started with.
NoChange(W) ==
    /\ W.wsClient = wsClient
    /\ W.sockets = sockets
    /\ W.timers = timers
    /\ W.httpClient = httpClient
    /\ W.client = client

\* C12: an inbound `event` message for resource R, id I, event E with payload P
\* calls every listener registered under R:I:E and every listener registered
\* under E once per key, each with P, and no listener under any other key; a
\* message of any other discriminant (and a text that does not parse) calls no
\* listener and changes nothing of the channel.
C12_MessageFanOut ==
    \A m \in Messages, T \in SUBSET Handlers :
        LET W == MessageTask(m, T)
            calls == Of(W.out, "call")
            keys == {CompositeKey[m.resourceId], m.event}
            Count(k, h) ==
                Cardinality({n \in 1..Len(calls) : calls[n].key = k /\ calls[n].h = h})
        IN  IF m.type = "event"
            THEN /\ \A n \in 1..Len(calls) : calls[n].d = <<m.data>>
                 /\ \A k \in EventKeys \cup keys, h \in Handlers :
                       Count(k, h) = IF k \in keys /\ Registered(k, h) THEN 1 ELSE 0
                 /\ Len(calls) = Cardinality({kh \in keys \X Handlers : Registered(kh[1], kh[2])})
            ELSE calls = <<>> /\ NoChange(W)

\* C12's case: both callbacks are registered under both keys of the message
\* for thread t1, and the message that came last called the four of them.
C12_Witness ==
    /\ \A k \in RegistryKeys, h \in Handlers : Registered(k, h)
    /\ done # <<>> /\ done[1] = "delivered" /\ done[2] = 4

\* C17: when listeners throw during the fan-out of a message, the listeners
\* called, their order and their payload are the ones of the fan-out in which
\* none throws, every throw is caught, and the channel's fields, sockets and
\* timers are unchanged; a `reconnecting` listener that throws changes nothing
\* of what the close of a socket does.
C17_ThrowingListenerIsolated ==
    /\ \A m \in Messages, T \in SUBSET Handlers :
          LET W == MessageTask(m, T)
              calls == Of(W.out, "call")
              caught == Of(W.out, "caught")
          IN  /\ calls = Of(MessageTask(m, {}).out, "call")
              /\ Len(caught) = Cardinality({n \in 1..Len(calls) : calls[n].h \in T})
              /\ NoChange(W)
    /\ \A s \in SocketIds, T \in SUBSET Handlers :
          sockets[s].state \in {"OPEN", "CLOSING", "ERRORED"} =>
              LET W == CloseTaskThrowing(s, T)
                  V == CloseTask(s)
              IN  /\ W.wsClient = V.wsClient
                  /\ W.sockets = V.sockets
                  /\ W.timers = V.timers
                  /\ Of(W.out, "call") = Of(V.out, "call")
                  /\ Of(W.out, "setTimeout") = Of(V.out, "setTimeout")

\* C17's case: the first callback, which throws, is registered before the
\* second under both keys, a reconnect is pending after a close, a socket is
\* open, and the message that came last called the four registrations, of
\* which two threw.
C17_Witness ==
    /\ \A k \in RegistryKeys : wsClient.eventHandlers[k] = <<1, 2>>
    /\ Len(Of(MessageTask(Message_("event", "t1"), {1}).out, "caught")) = 2
    /\ wsClient.reconnectAttempts = 1
    /\ \E s \in SocketIds : sockets[s].state = "OPEN"
    /\ done = <<"delivered", 4, 2>>

--------------------------------------------------------------------------
(* The claims about the Listener Registry, under SpecRegistry *)

\* C13: an unsubscribe function removes its callback from its key, keeps the
\* other callbacks of that key in their order and leaves every other key as
\* it is; one already invoked leaves the whole registry as it is when it is
\* invoked again, whatever was registered in between.
C13_HandleRemovesOnce ==
    \A u \in handles :
        LET before == wsClient.eventHandlers
            after == OffTask(u).wsClient.eventHandlers
        IN  /\ Of(OffTask(u).out, "throw") = <<>>
            /\ \A k \in EventKeys \ {u.event} : after[k] = before[k]
            /\ after[u.event] = SelectSeq(before[u.event], LAMBDA h : h # u.handler)
            /\ u.calls = 1 => after = before

--------------------------------------------------------------------------
(* The claims about the completion of connect(), under SpecStream *)

\* The sockets by what the transport may report of them next.
Unopened == {s \in SocketIds : sockets[s].state \in {"CONNECTING", "FAILING"}}
Opened == {s \in SocketIds : sockets[s].state = "OPEN"}

\* C14: the promise of connect() is pending until its connection reports
\* open or an error; the open resolves it; an error before the open rejects
\* it; an error after the open leaves it resolved, rejects nothing and is
\* emitted to the `error` listeners; a settled promise is never settled again.
C14_ConnectSettlesOnce ==
    /\ \A s \in Unopened : sockets[s].promise = "pending"
    /\ \A s \in SocketIds :
          sockets[s].state = "CONNECTING" => OpenTask(s).sockets[s].promise = "resolved"
    /\ \A s \in Unopened : ErrorTask(s).sockets[s].promise = "rejected"
    /\ \A s \in Opened :
          /\ sockets[s].promise = "resolved"
          /\ ErrorTask(s).sockets[s].promise = "resolved"
          /\ Of(ErrorTask(s).out, "rejected") = <<>>
          /\ Len(OfKey(ErrorTask(s).out, "emit", "error")) = 1

--------------------------------------------------------------------------
(* The claims about the stored credential, under SpecRequest *)

\* The refreshAccessToken() calls whose request is in flight: the ones the
\* caller made and the ones the 401 branch made, each with the task of its
\* response 200.
DirectRefreshes == {i \in ReqIds : reqs[i].pc = "fetch" /\ reqs[i].kind = "refresh"}
CallbackRefreshes == {p \in ReqIds : reqs[p].cb}
RefreshResults ==
    {ResponseTask(i, 200) : i \in DirectRefreshes}
        \cup {RefreshResponseTask(p, 200) : p \in CallbackRefreshes}

\* C15: a refreshAccessToken() the backend answers stores the access token
\* and the refresh token of the answer in the coordinator and the access
\* token in both channels, emits `token.updated` once, and leaves the user id
\* getUserId() returns as it was, whatever it was.
C15_RefreshKeepsUserId ==
    \A W \in RefreshResults :
        LET k == Issued(issued)
        IN  /\ W.client.accessToken = Access(k)
            /\ W.client.refreshToken = Refresh(k)
            /\ W.httpClient.accessToken = Access(k)
            /\ W.wsClient.accessToken = Access(k)
            /\ Len(OfKey(W.out, "emit", "token.updated")) = 1
            /\ W.client.userId = client.userId

\* C16: authenticateWithToken with a non-empty refresh token stores exactly
\* that token as what getRefreshToken() returns, and the stored refresh token
\* changes only in a step that is an authenticateWithToken, or the answer 200
\* to an authenticateAnonymous or to a refreshAccessToken.
C16_RefreshTokenRoundTrip ==
    /\ [](\A k \in ExtCreds : \A userId \in {0, User(k)} :
            WithTokenTask(Access(k), userId, Refresh(k)).client.refreshToken = Refresh(k))
    /\ [][client'.refreshToken # client.refreshToken =>
            \/ /\ AuthenticateWithToken
               /\ client'.refreshToken \in {Refresh(k) : k \in ExtCreds}
            \/ \E i \in ReqIds :
                  reqs[i].kind \in {"anon", "refresh"} /\ Respond(i, 200)
            \/ \E p \in ReqIds : RespondRefresh(p, 200)]_vars

\* C16's case: the credential adopted with authenticateWithToken is stored
\* after the backend issued another one, and a call has failed since.
C16_Witness ==
    /\ client.refreshToken = Refresh(0)
    /\ issued = 1
    /\ done # <<>> /\ done[1] = "HttpError"

--------------------------------------------------------------------------
(* The claims about the options of the coordinator, under SpecOptions *)

\* The option the caller supplied, or its default.
Supplied(key, default) == IF key \in DOMAIN supplied THEN supplied[key] ELSE default

\* C18: the channel of a coordinator holds the backoffBase, backoffMax and
\* jitter its caller supplied (0, 30000 and true for the ones left out), as
\* it holds the reconnectInterval and maxReconnectAttempts supplied, and the
\* delay of every reconnect it schedules is the one those values give.
C18_BackoffOptionsPassedThrough ==
    /\ wsClient.reconnectInterval = Supplied("reconnectInterval", 5000)
    /\ wsClient.maxReconnectAttempts = Supplied("maxReconnectAttempts", 10)
    /\ wsClient.backoffBase = Supplied("backoffBase", 0)
    /\ wsClient.backoffMax = Supplied("backoffMax", 30000)
    /\ wsClient.jitter = Supplied("jitter", TRUE)
    /\ ~Supplied("jitter", TRUE) =>
          \A s \in Closable : \A d \in DelaysSet(s) :
              LET N == wsClient.reconnectAttempts + 1
                  grown == Supplied("backoffBase", 0) * 2^(N - 1)
              IN  d = IF Supplied("backoffBase", 0) > 0
                      THEN IF grown > Supplied("backoffMax", 30000)
                           THEN Supplied("backoffMax", 30000) ELSE grown
                      ELSE Supplied("reconnectInterval", 5000)

\* The headers of a transmission: the API key, and the bearer credential
\* `token` unless the call skips authorization or no token is held (0: none).
Headers(skip, token) == <<1, IF ~skip /\ token > 0 THEN token ELSE 0>>

\* C20: every request sent carries the API key; it carries a bearer credential
\* exactly when its call does not skip authorization and the Request Channel
\* holds a token, and then that token as it is when the request is sent; the
\* requests of authenticateAnonymous and refreshAccessToken carry none; and
\* the retries sent when a refresh succeeded carry the access token of that
\* refresh, which is not the token held before it.
C20_HeadersOfEveryTransmission ==
    /\ \A i \in ReqIds : Free(i) =>
          /\ \A skipAuth, retryOn401 \in BOOLEAN :
                Of(RequestTask(i, skipAuth, retryOn401).out, "fetch")
                    = <<Rec("fetch", "request", i, Headers(skipAuth, httpClient.accessToken))>>
          /\ Of(AnonymousTask(i).out, "fetch") = <<Rec("fetch", "anon", i, <<1, 0>>)>>
          /\ Of(RefreshTask(i).out, "fetch")
                = IF client.refreshToken > 0
                  THEN <<Rec("fetch", "refresh", i, <<1, 0>>)>> ELSE <<>>
    /\ \A i \in ReqIds, status \in Statuses : reqs[i].pc = "fetch" =>
          LET sent == Of(ResponseTask(i, status).out, "fetch")
          IN  \A n \in 1..Len(sent) :
                  sent[n].d = IF sent[n].key = "request"
                              THEN Headers(reqs[sent[n].h].skipAuth, httpClient.accessToken)
                              ELSE <<1, 0>>
    /\ \A p \in CallbackRefreshes, status \in Statuses :
          LET W == RefreshResponseTask(p, status)
              sent == Of(W.out, "fetch")
          IN  /\ Len(sent) = IF status = 200 THEN Cardinality(Awaiting) ELSE 0
              /\ \A n \in 1..Len(sent) :
                    /\ sent[n].key = "request"
                    /\ sent[n].d = <<1, Access(Issued(issued))>>
                    /\ sent[n].d[2] = W.httpClient.accessToken
                    /\ sent[n].d[2] # httpClient.accessToken

\* C20's case: a call that does not skip authorization was sent a second
\* time, after a refresh replaced the token, while another call is in flight
\* that skips it.
C20_Witness ==
    /\ httpClient.accessToken = Access(1)
    /\ \E i, j \in ReqIds :
          /\ reqs[i].pc = "fetch" /\ reqs[i].sends = 2 /\ ~reqs[i].skipAuth
          /\ reqs[j].pc = "fetch" /\ reqs[j].skipAuth

\* The credentials a behaviour may see: the caller's and the backend's.
Credentials == 0..(Cardinality(ExtCreds) + MaxIssue)

\* C21: between tasks, the coordinator, the Request Channel and the
\* Streaming Channel hold the same access token, and the coordinator's access
\* token and refresh token are those of one credential (or none is held).
C21_TokensMirrored ==
    /\ httpClient.accessToken = client.accessToken
    /\ wsClient.accessToken = client.accessToken
    /\ \/ client.accessToken = 0 /\ client.refreshToken = 0
       \/ \E k \in Credentials :
             client.accessToken = Access(k) /\ client.refreshToken = Refresh(k)

\* C21's case: the backend's credential is the session, and a call sent again
\* after a 401-triggered refresh awaits its response.
C21_Witness ==
    /\ client.accessToken = Access(1)
    /\ issued = 1
    /\ \E i \in ReqIds : reqs[i].pc = "fetch" /\ reqs[i].sends = 2

--------------------------------------------------------------------------
(* The claims about the reconnect timer and the connected flag, under SpecStream *)

\* C22: at most one reconnect timer is pending, and it is the one the channel
\* remembers; the close of a socket that schedules a reconnect leaves its new
\* timer as the only one pending; disconnect() leaves none pending; and a
\* connection attempt is started by a timer only when a pending timer fires.
C22_OnePendingTimer ==
    /\ [](/\ Cardinality(timers) <= 1
          /\ timers \subseteq {wsClient.reconnectTimeout}
          /\ DisconnectTask.timers = {}
          /\ \A s \in Closable :
                LET W == CloseTask(s)
                IN  IF Of(W.out, "setTimeout") # <<>>
                    THEN W.timers = {W.wsClient.reconnectTimeout}
                    ELSE W.timers = timers)
    /\ [][(\E s \in SocketIds :
              sockets'[s].state = "CONNECTING" /\ sockets'[s].timer
                  /\ sockets[s].state = "CLOSED") =>
            \E t \in timers : timers' = timers \ {t}]_vars

\* C22's case: a reconnect timer is pending while an open connection is
\* about to close and schedule another reconnect.
C22_Witness ==
    /\ timers # {}
    /\ \E s \in SocketIds :
          /\ sockets[s].state = "OPEN"
          /\ Of(CloseTask(s).out, "setTimeout") # <<>>

--------------------------------------------------------------------------
(* The claim about credential rotation, under SpecOptions *)

\* C23: a channel configured to reconnect, whose caller never calls
\* disconnect(), keeps reconnecting after its token was replaced: the close
\* of its open current connection schedules a reconnect whenever the attempt
\* counter is below the maximum.
C23_RotationKeepsAutoReconnect ==
    Supplied("autoReconnect", TRUE) =>
        \A s \in SocketIds :
            (/\ sockets[s].state = "OPEN"
             /\ wsClient.ws = s
             /\ wsClient.reconnectAttempts < wsClient.maxReconnectAttempts) =>
                Of(CloseTask(s).out, "setTimeout") # <<>>

\* The sockets the channel has replaced and whose events are still to come.
Superseded == Live(sockets) \ {wsClient.ws}

\* What a task did on behalf of the channel's current connection: the flag,
\* the attempt counter and the timers it ends with.
Standing(W) == <<W.wsClient.isConnected, W.wsClient.reconnectAttempts, W.timers>>

\* C24: when the channel says it is connected, its current socket exists and
\* is open; when the current socket is open and no replaced socket has events
\* to come, the channel says it is connected; and the open, the error and the
\* close of a replaced socket change neither the flag nor the attempt counter
\* and schedule no reconnect.
C24_FlagDescribesCurrentConnection ==
    /\ wsClient.isConnected =>
          wsClient.ws # 0 /\ sockets[wsClient.ws].state = "OPEN"
    /\ (/\ wsClient.ws # 0
        /\ sockets[wsClient.ws].state = "OPEN"
        /\ Superseded = {}) => wsClient.isConnected
    /\ \A s \in Superseded :
          /\ sockets[s].state = "CONNECTING" => Standing(OpenTask(s)) = Standing(World)
          /\ sockets[s].state \in {"CONNECTING", "OPEN", "FAILING"} =>
                Standing(ErrorTask(s)) = Standing(World)
          /\ sockets[s].state \in {"OPEN", "CLOSING", "ERRORED"} =>
                Standing(CloseTask(s)) = Standing(World)

--------------------------------------------------------------------------
(* The claim about the lifecycle listeners, under SpecLifecycle *)

\* C25: no message of the backend, whatever its event name, calls a listener
\* registered under `user.created`, `token.updated`, `reconnecting` or `error`.
C25_MessagesCallNoLifecycleListener ==
    (\E s \in SocketIds : sockets[s].state \in OpenedStates) =>
        \A m \in LifecycleMessages :
            LET calls == Of(MessageTask(m, {}).out, "call")
            IN  \A n \in 1..Len(calls) : calls[n].key \notin LifecycleKeys

--------------------------------------------------------------------------
(* The claims about the refresh in flight, under SpecRequestAnswered and SpecRequest *)

\* C26: when the transport answers every request, every call in flight, also
\* one awaiting the shared refresh, settles at last, and so does every
\* refresh a call started; a 401 answer to a refresh request fails the
\* refresh at once: the marker is cleared and nothing awaits any more.
C26_EveryCallSettles ==
    /\ \A i \in ReqIds : ~Free(i) ~> Free(i)
    /\ [](\A p \in CallbackRefreshes :
            LET W == RefreshResponseTask(p, 401)
            IN  /\ ~W.httpClient.isRefreshing
                /\ \A j \in ReqIds : W.reqs[j].pc # "await" /\ ~W.reqs[j].cb)
    /\ [](\A i \in DirectRefreshes :
            LET W == ResponseTask(i, 401)
            IN  /\ W.reqs[i].pc = "idle"
                /\ Of(W.out, "rejected") = <<Rec("rejected", "HttpError", i, <<>>)>>)

\* C26's case: two calls await the refresh that one of them started, whose
\* request is in flight.
C26_Witness ==
    \E j, p \in ReqIds :
        /\ j # p
        /\ reqs[p].cb /\ reqs[p].pc = "await" /\ reqs[p].awaits = p
        /\ reqs[j].pc = "await" /\ reqs[j].awaits = p

\* C27: between tasks the marker is set exactly when a pending outcome is
\* held; the response to a refresh request, whatever its status, leaves the
\* marker cleared and no outcome held; and a 401 for a call that may refresh,
\* arriving while no refresh is in flight, calls the callback exactly once
\* and, when a refresh token is held, leaves the marker set, the new outcome
\* held and the call awaiting it.
C27_MarkerAndOutcomeTogether ==
    /\ httpClient.isRefreshing <=> (httpClient.refreshPromise # 0)
    /\ \A p \in CallbackRefreshes, status \in Statuses :
            (status = 200 => (issued < MaxIssue /\ RoomToRotate)) =>
                LET W == RefreshResponseTask(p, status)
                IN  /\ ~W.httpClient.isRefreshing
                    /\ W.httpClient.refreshPromise = 0
    /\ \A i \in ReqIds :
            (Eligible(i) /\ ~httpClient.isRefreshing) =>
                LET W == ResponseTask(i, 401)
                IN  /\ Len(Of(W.out, "callback")) = 1
                    /\ ~Falsy(client.refreshToken) =>
                            /\ W.httpClient.isRefreshing
                            /\ W.httpClient.refreshPromise = i
                            /\ W.reqs[i].pc = "await" /\ W.reqs[i].awaits = i

\* C27's case: a refresh failed, the call that awaited it ended with its
\* error, and a later 401 has started another refresh, now in flight.
C27_Witness ==
    /\ done = <<"RefreshError", 1>>
    /\ httpClient.isRefreshing
    /\ \E p \in CallbackRefreshes : httpClient.refreshPromise = p

--------------------------------------------------------------------------
(* The claim about the refresh token of a session, under SpecRequest *)

\* The coordinator holds no credential and never held one: nothing of a
\* credential is stored anywhere, and the backend issued none.
NeverAdopted ==
    /\ client.accessToken = 0 /\ client.refreshToken = 0 /\ client.userId = 0
    /\ httpClient.accessToken = 0 /\ wsClient.accessToken = 0
    /\ issued = 0

\* C28: a coordinator that holds an access token holds a refresh token, and a
\* refresh token once held is never dropped; so a 401 on an authenticated
\* session starts a refresh that sends its request and throws nothing; and
\* refreshAccessToken() throws NotAuthenticated only when no credential was
\* ever adopted, and then it sends nothing and changes nothing.
C28_AccessTokenImpliesRefreshToken ==
    /\ [](~Falsy(client.accessToken) => ~Falsy(client.refreshToken))
    /\ [][~Falsy(client.refreshToken) => ~Falsy(client'.refreshToken)]_vars
    /\ [](\A i \in ReqIds :
            (Eligible(i) /\ ~httpClient.isRefreshing /\ ~Falsy(client.accessToken)) =>
                LET W == ResponseTask(i, 401)
                IN  /\ Of(W.out, "throw") = <<>>
                    /\ Of(W.out, "fetch") = <<Rec("fetch", "refresh", i, <<1, 0>>)>>)
    /\ [](\A i \in ReqIds :
            Free(i) =>
                LET W == RefreshTask(i)
                IN  IF Of(W.out, "throw") # <<>>
                    THEN /\ NeverAdopted
                         /\ W.out = <<Rec("throw", "NotAuthenticated", 0, <<>>)>>
                         /\ W.client = client /\ W.httpClient = httpClient
                         /\ W.wsClient = wsClient /\ W.reqs = reqs
                    ELSE ~Falsy(client.refreshToken))

\* C28's case: the session is the credential the backend issued at a refresh
\* that a 401 started, and the call sent again has ended since.
C28_Witness ==
    /\ ~Falsy(client.accessToken)
    /\ issued > 0
    /\ client.accessToken = Access(Issued(issued - 1))
    /\ done # <<>> /\ done[2] = 2

====
